---- MODULE Spec2Model ----
(***************************************************************************)
(* State-machine model of the wasm front end of mGBA                       *)
(* (src/platform/wasm/main.c): the global `renderer`, the main-loop        *)
(* callback runLoop and the exported entry points.                         *)
(*                                                                         *)
(* Representation notes                                                    *)
(*  - Times are exact rationals in units of 1/300 ms, so that the frame    *)
(*    duration 1000/60 ms (= 5000) and the bias 0.2 ms (= 60) are          *)
(*    integers.                                                            *)
(*  - runLoop reads the monotonic host clock; the model gives the tick     *)
(*    its elapsed time  now - lastLoopTime >= 0  as an input, which is     *)
(*    all the code uses of `now` and `lastLoopTime`.                       *)
(*  - Sint32 values are kept as two's-complement integers in               *)
(*    -2^31 .. 2^31-1; a Uint32 is kept as the same bit pattern, so a      *)
(*    negative number stands for a Uint32 >= 2^31.                         *)
(*  - audio.fpsTarget is a double; the model keeps fpsTarget / 60.         *)
(*  - Volumes passed to setVolume are in units of 1/512, so that the       *)
(*    truncation of (int)(vol * 0x100) is visible.                         *)
(*  - A machine handle (struct mCore* ) is a session number 1, 2, ...;     *)
(*    NULL is 0.  A texture carries the number of the session whose Load   *)
(*    created it.                                                          *)
(***************************************************************************)
EXTENDS Integers, Sequences, FiniteSets, TLC

VARIABLES
    core,              \* renderer.core: 0 = NULL, else the session number
    sessions,          \* number of machine handles created so far
    romLoaded,         \* result of mCoreLoadFile for the current core
    volumeCfg,         \* core->config default "volume" (fixed point, 0x100 = 100%)
    optsVolume,        \* core->opts.volume
    frameskipCfg,      \* core->config default "frameskip"
    keys,              \* buttons held down in the core
    videoBuffer,       \* texture whose pixels the core renders into (0 = none)
    renderFirstFrame,  \* renderer.renderFirstFrame
    fastForwardSpeed,  \* renderer.fastForwardSpeed (Sint32)
    fpsTarget60,       \* renderer.audio.fpsTarget / 60
    frameTime,         \* renderer.frameTime, in 1/300 ms
    sdlTex,            \* renderer.sdlTex: 0 = NULL, else the creating session
    texLocked,         \* whether sdlTex is locked for writing
    texSize,           \* the width and height sdlTex was created with
    audioRunning,      \* SDL audio device playing (not paused)
    audioCore,         \* renderer.audio.core
    mainLoopRunning,   \* the emscripten main loop is not paused
    framesRun,         \* runFrame calls made by the last call: the low 32 bits
                       \* of the count (a Uint32 bit pattern)
    framesRunHi,       \* bit 32 of that count: 1 when the loop ran 2^32 times
    lastOp,            \* the last entry point called, its argument and outcome
    paceTicks,         \* ticks counted since the first-frame tick (pacing run)
    paceFrames,        \* frames executed in those ticks
    paceAhead          \* frames executed * frame duration - time elapsed, since
                       \* the Load of the drift run (1/300 ms)

vars == << core, sessions, romLoaded, volumeCfg, optsVolume, frameskipCfg, keys,
           videoBuffer, renderFirstFrame, fastForwardSpeed, fpsTarget60,
           frameTime, sdlTex, texLocked, texSize, audioRunning, audioCore,
           mainLoopRunning, framesRun, framesRunHi, lastOp, paceTicks, paceFrames,
           paceAhead >>

coreVars == << core, sessions, romLoaded, volumeCfg, optsVolume, frameskipCfg,
               keys, videoBuffer >>
videoVars == << sdlTex, texLocked, texSize >>
audioVars == << audioRunning, audioCore >>
paceVars == << paceTicks, paceFrames, paceAhead >>

(***************************************************************************)
(* Program constants                                                       *)
(***************************************************************************)
NULL == 0
\* double targetFrameTime = 1000.0 / 60.0;
TargetFrameTime == 5000
\* the bias 0.2 in (renderer.frameTime + 0.2) / targetFrameTime
Epsilon == 60
\* if (nowFramesInt > 20) nowFramesInt = 20;
MaxFramesPerTick == 20
\* mCoreConfigSetDefaultIntValue(&renderer.core->config, "volume", 0x100);
DefaultVolume == 256
\* vol > 2.0 is rejected: 2.0 in units of 1/512
MaxVol == 1024
\* .fastForwardSpeed = 1
InitFastForwardSpeed == 1
\* the F key: SDL_KEYDOWN ? 2 : 1
KeyFastForwardSpeed == 2
MaxInt32 == 2147483647
MinInt32 == (-2147483647) - 1
\* opts.volume of a freshly initialised core (the default volume)
InitOptsVolume == 256

(***************************************************************************)
(* Bounds of the model                                                     *)
(***************************************************************************)
MaxLoads == 2
MaxPaceTicks == 10000
MaxDriftFrames == 100

\* elapsed times a tick may see, in 1/300 ms:
\* 0, 8.237 ms, 16.667 ms, 33.33 ms, 5 s
\* (none of their sums lands exactly on a frame threshold; the pacing run does)
ElapsedSet == {0, 2471, 5000, 10000, 1500000}
\* arguments of setVolume in 1/512: -0.1, 0, 0.002, 1.0, 2.0, 2.1 (rounded)
VolSet == {-52, 0, 1, 512, 1024, 1075}
\* arguments of setFastForwardMultiplier
\* (300 * 2^30 is a multiple of 2^32: the product of line 87 wraps to 0)
MultiplierSet == {-1, 0, 1, 3, 1073741824, MaxInt32}
Buttons == {0}
\* key events the host may have queued for one tick
EventSeqs == { <<>>, <<"Fdown">>, <<"Fup">>, <<"Kdown">>, <<"Kup">> }
\* the spacing of the pacing run: one frame duration
PaceSpacing == TargetFrameTime
\* elapsed times of the first-frame tick of the pacing run; they leave 0,
\* 8.33 ms, 16.33 ms, 16.463 ms and (9940, exactly on the threshold of two
\* frames, rounded low) 16.467 ms in the accumulator
PaceFirstElapsed == {5000, 7500, 9900, 9939, 9940}
\* elapsed times of the ticks of the drift run: 0, 8.237 ms, 16.667 ms, 33.33 ms
DriftElapsed == {0, 2471, 5000, 10000}
\* width and height of the video output: none, Game Boy Advance, Game Boy
NoSize == << 0, 0 >>
GBASize == << 240, 160 >>
GBSize == << 160, 144 >>
VideoSizes == {GBASize, GBSize}

(***************************************************************************)
(* Arithmetic of runLoop                                                   *)
(***************************************************************************)
\* a plausible slip: the quotient rounded up instead of biased and truncated
FramesDueRoundedUp(ft, low) == (ft + TargetFrameTime - 1) \div TargetFrameTime

\* Sint32 nowFramesInt = (renderer.frameTime + 0.2) / targetFrameTime;
\* The code divides doubles and truncates toward zero.  Off a frame boundary
\* that is the exact quotient truncated.  Where frameTime + 0.2 ms is exactly
\* k frame times, the quotient of the doubles comes out as k or just below k
\* (1000.0 / 60.0 is not exact, nor is the sum that made frameTime), and the
\* conversion then gives k or k - 1: `low` says which.
FramesDue(ft, low) ==
    LET x == ft + Epsilon
        q == IF x < 0 THEN -((-x) \div TargetFrameTime)
                      ELSE x \div TargetFrameTime
    IN IF low /\ x > 0 /\ x % TargetFrameTime = 0 THEN q - 1 ELSE q

\* the roundings that make a difference for frameTime = ft
Roundings(ft) ==
    IF ft + Epsilon > 0 /\ (ft + Epsilon) % TargetFrameTime = 0
    THEN BOOLEAN ELSE {FALSE}

\* a plausible slip: the clamp left out
ClampAccumulatorMissing(ft) == ft

\* if (renderer.frameTime < 0.0) renderer.frameTime = 0.0;
ClampAccumulator(ft) == IF ft < 0 THEN 0 ELSE ft

\* a plausible slip: the frames run are not taken off the accumulator
ConsumeFramesForgotten(ft, n) == ClampAccumulator(ft)

\* renderer.frameTime -= nowFramesInt * targetFrameTime;  then the clamp
ConsumeFrames(ft, n) == ClampAccumulator(ft - n * TargetFrameTime)

\* x + y in Sint32 with wrap-around (two's complement)
AddWrap(x, y) ==
    IF x >= 0 /\ y >= 0 /\ x > MaxInt32 - y
    THEN (x - MaxInt32 - 1) + (y - MaxInt32 - 1)
    ELSE IF x < 0 /\ y < 0 /\ x < MinInt32 - y
    THEN (x + MaxInt32 + 1) + (y + MaxInt32 + 1)
    ELSE x + y

RECURSIVE MulWrap(_, _)
\* n * m in Sint32 with wrap-around, for n >= 0 (by doubling)
MulWrap(n, m) ==
    IF n = 0 THEN 0
    ELSE LET h == MulWrap(n \div 2, m)
         IN AddWrap(AddWrap(h, h), IF n % 2 = 1 THEN m ELSE 0)

\* whether n * m leaves the Sint32 range, for n >= 1 and m >= 1
MulOverflows(n, m) == m > MaxInt32 \div n

\* if (renderer.fastForwardSpeed > 1) nowFramesInt *= renderer.fastForwardSpeed;
\* Signed overflow is undefined: `wide` says whether the build evaluated the
\* product exactly (it is then above 20) or wrapped it to 32 bits.
ScaleFrames(n, speed, wide) ==
    IF speed > 1
    THEN IF MulOverflows(n, speed)
         THEN (IF wide THEN MaxInt32 ELSE MulWrap(n, speed))  \* exact: > 20
         ELSE n * speed
    ELSE n

\* if (nowFramesInt > 20) nowFramesInt = 20;
ClampFrames(n) == IF n > MaxFramesPerTick THEN MaxFramesPerTick ELSE n

\* for (Uint32 i = 0; i < nowFramesInt; i++): the number of iterations as a
\* Uint32 bit pattern (nowFramesInt is converted to unsigned by the comparison)
LoopCount(n) == n

\* a Uint32 bit pattern u is at most k, for 0 <= k < 2^31
UnsignedAtMost(u, k) == u >= 0 /\ u <= k

(***************************************************************************)
(* Collaborators: the SDL audio device, the emscripten main loop, the core *)
(***************************************************************************)
\* mSDLPauseAudio / mSDLResumeAudio: stop / start the stream; idempotent
PausedAudio == FALSE
ResumedAudio == TRUE

\* the fields of a core that has been deinit'ed (or never existed)
NoCoreFields ==
    /\ romLoaded' = FALSE
    /\ volumeCfg' = 0
    /\ optsVolume' = 0
    /\ frameskipCfg' = 0
    /\ keys' = {}
    /\ videoBuffer' = NULL

\* evs: the SDL events the call has handled (runLoop only)
Op(name, arg, ret, fault) ==
    [op |-> name, arg |-> arg, ret |-> ret, fault |-> fault, evs |-> << >>]
True == 1
False == 0
Void == 0

Init ==
    /\ core = NULL
    /\ sessions = 0
    /\ romLoaded = FALSE
    /\ volumeCfg = 0
    /\ optsVolume = 0
    /\ frameskipCfg = 0
    /\ keys = {}
    /\ videoBuffer = NULL
    /\ renderFirstFrame = TRUE
    /\ fastForwardSpeed = InitFastForwardSpeed
    /\ fpsTarget60 = 1
    /\ frameTime = 0
    /\ sdlTex = NULL
    /\ texLocked = FALSE
    /\ texSize = NoSize
    /\ audioRunning = PausedAudio
    /\ audioCore = NULL
    /\ mainLoopRunning = TRUE
    /\ framesRun = 0
    /\ framesRunHi = 0
    /\ lastOp = Op("main", 0, Void, FALSE)
    /\ paceTicks = 0
    /\ paceFrames = 0
    /\ paceAhead = 0

(***************************************************************************)
(* handleKeypressCore, folded over the events SDL_PollEvent returns        *)
(***************************************************************************)
\* renderer.fastForwardSpeed after one key event
SpeedAfterKey(speed, ev) ==
    IF ev = "Fdown" THEN KeyFastForwardSpeed
    ELSE IF ev = "Fup" THEN InitFastForwardSpeed
    ELSE speed

\* the core's held buttons after one key event (the bound key is button 0)
KeysAfterKey(ks, ev) ==
    IF ev = "Kdown" THEN ks \cup {0}
    ELSE IF ev = "Kup" THEN ks \ {0}
    ELSE ks

RECURSIVE SpeedAfterEvents(_, _)
SpeedAfterEvents(speed, evs) ==
    IF evs = <<>> THEN speed
    ELSE SpeedAfterEvents(SpeedAfterKey(speed, Head(evs)), Tail(evs))

RECURSIVE KeysAfterEvents(_, _)
KeysAfterEvents(ks, evs) ==
    IF evs = <<>> THEN ks
    ELSE KeysAfterEvents(KeysAfterKey(ks, Head(evs)), Tail(evs))

(***************************************************************************)
(* runLoop                                                                 *)
(***************************************************************************)
\* What a build makes of the undefined overflow of line 87:
\*   "wrap"    the product is wrapped to 32 bits;
\*   "wide"    the product is taken exactly (it is then above 20);
\*   "noentry" the product is wrapped and the loop of line 96 has lost the
\*             test before its first iteration (the compiler takes the
\*             product of two positive ints to be positive), so that a
\*             product wrapped to 0 runs the loop 2^32 times.
OverflowOutcomes == {"wrap", "wide", "noentry"}

\* the outcomes that make a difference for n frames due at multiplier speed
Outcomes(n, speed) ==
    IF n >= 1 /\ speed > 1 /\ MulOverflows(n, speed)
    THEN OverflowOutcomes ELSE {"wrap"}

\* the frames one tick executes: one if renderFirstFrame, else the loop
\* (low 32 bits of the count)
FramesOfTick(first, n, speed, ub) ==
    IF first THEN 1
    ELSE LoopCount(ClampFrames(ScaleFrames(n, speed, ub = "wide")))

\* bit 32 of the count: the loop ran 2^32 times
FramesOfTickHi(first, n, speed, ub) ==
    IF /\ ~first
       /\ ub = "noentry"
       /\ speed > 1
       /\ MulOverflows(n, speed)
       /\ MulWrap(n, speed) = 0
    THEN 1 ELSE 0

runLoop(elapsed, evs, low, ub) ==
    /\ mainLoopRunning
    /\ lastOp' = [Op("runLoop", elapsed, Void, FALSE) EXCEPT
                     !.evs = IF core # NULL THEN evs ELSE << >>]
    /\ IF core # NULL
       THEN /\ fastForwardSpeed' = SpeedAfterEvents(fastForwardSpeed, evs)
            /\ keys' = KeysAfterEvents(keys, evs)
            /\ LET ft == frameTime + elapsed
                   n  == FramesDue(ft, low)
               IN IF n < 1
                  THEN /\ frameTime' = ft
                       /\ framesRun' = 0
                       /\ framesRunHi' = 0
                       /\ UNCHANGED << renderFirstFrame, videoBuffer, texLocked >>
                  ELSE /\ frameTime' = ConsumeFrames(ft, n)
                       /\ framesRun' =
                            FramesOfTick(renderFirstFrame, n, fastForwardSpeed', ub)
                       /\ framesRunHi' =
                            FramesOfTickHi(renderFirstFrame, n, fastForwardSpeed', ub)
                       /\ renderFirstFrame' = FALSE
                       \* unlock, present, lock again, setVideoBuffer
                       /\ texLocked' = TRUE
                       /\ videoBuffer' = sdlTex
            /\ UNCHANGED << core, sessions, romLoaded, volumeCfg, optsVolume,
                            frameskipCfg, fpsTarget60, sdlTex, texSize, audioVars,
                            mainLoopRunning >>
       ELSE /\ renderFirstFrame' = TRUE
            /\ mainLoopRunning' = FALSE
            /\ framesRun' = 0
            /\ framesRunHi' = 0
            /\ UNCHANGED << coreVars, fastForwardSpeed, fpsTarget60, frameTime,
                            videoVars, audioVars >>

(***************************************************************************)
(* loadGame                                                                *)
(***************************************************************************)
\* loadGame without the SDL_LockTexture and setVideoBuffer calls that follow
\* SDL_CreateTexture
loadGameNoVideoTarget(found, loaded, size) ==
    /\ sessions < MaxLoads
    /\ framesRun' = 0
    /\ framesRunHi' = 0
    /\ UNCHANGED << renderFirstFrame, fastForwardSpeed, fpsTarget60, frameTime >>
    /\ IF ~found
       THEN /\ core' = NULL
            /\ NoCoreFields
            /\ lastOp' = Op("loadGame", 0, False, FALSE)
            /\ UNCHANGED << sessions, videoVars, audioVars, mainLoopRunning >>
       ELSE /\ sessions' = sessions + 1
            /\ core' = sessions'
            /\ romLoaded' = loaded
            /\ volumeCfg' = DefaultVolume
            /\ optsVolume' = InitOptsVolume
            /\ frameskipCfg' = 0
            /\ keys' = {}
            /\ sdlTex' = core'
            /\ texSize' = size
            /\ texLocked' = FALSE
            /\ videoBuffer' = NULL
            /\ audioCore' = core'
            /\ audioRunning' = ResumedAudio
            /\ mainLoopRunning' = TRUE
            /\ lastOp' = Op("loadGame", 0, True, FALSE)

\* size: what baseVideoSize reports for the core mCoreFind has found
loadGame(found, loaded, size) ==
    /\ sessions < MaxLoads
    /\ framesRun' = 0
    /\ framesRunHi' = 0
    /\ UNCHANGED << renderFirstFrame, fastForwardSpeed, fpsTarget60, frameTime >>
    /\ IF ~found
       THEN \* the old core is gone and mCoreFind returned NULL
            /\ core' = NULL
            /\ NoCoreFields
            /\ lastOp' = Op("loadGame", 0, False, FALSE)
            /\ UNCHANGED << sessions, videoVars, audioVars, mainLoopRunning >>
       ELSE /\ sessions' = sessions + 1
            /\ core' = sessions'
            /\ romLoaded' = loaded
            /\ volumeCfg' = DefaultVolume
            /\ optsVolume' = InitOptsVolume
            /\ frameskipCfg' = 0
            /\ keys' = {}
            /\ sdlTex' = core'
            /\ texSize' = size
            /\ texLocked' = TRUE
            /\ videoBuffer' = sdlTex'
            /\ audioCore' = core'
            /\ audioRunning' = ResumedAudio
            /\ mainLoopRunning' = TRUE
            /\ lastOp' = Op("loadGame", 0, True, FALSE)

(***************************************************************************)
(* quitGame, quickReload, pauseGame, resumeGame                            *)
(***************************************************************************)
\* quitGame without its `if (renderer.core)` guard
quitGameUnguarded ==
    /\ lastOp' = Op("quitGame", 0, Void, FALSE)
    /\ framesRun' = 0
    /\ framesRunHi' = 0
    /\ UNCHANGED << sessions, fastForwardSpeed, fpsTarget60, frameTime, videoVars,
                    audioCore >>
    /\ renderFirstFrame' = TRUE
    /\ audioRunning' = PausedAudio
    /\ mainLoopRunning' = FALSE
    /\ core' = NULL
    /\ NoCoreFields

\* quitGame releasing the texture together with the core
quitGameDestroysTexture ==
    /\ lastOp' = Op("quitGame", 0, Void, FALSE)
    /\ framesRun' = 0
    /\ framesRunHi' = 0
    /\ UNCHANGED << sessions, fastForwardSpeed, fpsTarget60, frameTime, audioCore >>
    /\ IF core # NULL
       THEN /\ renderFirstFrame' = TRUE
            /\ audioRunning' = PausedAudio
            /\ mainLoopRunning' = FALSE
            /\ core' = NULL
            /\ NoCoreFields
            /\ sdlTex' = NULL
            /\ texLocked' = FALSE
            /\ texSize' = NoSize
       ELSE UNCHANGED << core, romLoaded, volumeCfg, optsVolume, frameskipCfg, keys,
                         videoBuffer, renderFirstFrame, audioRunning,
                         mainLoopRunning, videoVars >>

quitGame ==
    /\ lastOp' = Op("quitGame", 0, Void, FALSE)
    /\ framesRun' = 0
    /\ framesRunHi' = 0
    /\ UNCHANGED << sessions, fastForwardSpeed, fpsTarget60, frameTime, videoVars,
                    audioCore >>
    /\ IF core # NULL
       THEN /\ renderFirstFrame' = TRUE
            /\ audioRunning' = PausedAudio
            /\ mainLoopRunning' = FALSE
            /\ core' = NULL
            /\ NoCoreFields
       ELSE UNCHANGED << core, romLoaded, volumeCfg, optsVolume, frameskipCfg, keys,
                         videoBuffer, renderFirstFrame, audioRunning,
                         mainLoopRunning >>

\* quickReload with pauseGame's mSDLPauseAudio call copied into it
quickReloadPausesAudio ==
    /\ lastOp' = Op("quickReload", 0, Void, core = NULL)
    /\ framesRun' = 0
    /\ framesRunHi' = 0
    /\ renderFirstFrame' = TRUE
    /\ audioRunning' = PausedAudio
    /\ UNCHANGED << coreVars, fastForwardSpeed, fpsTarget60, frameTime, videoVars,
                    audioCore, mainLoopRunning >>

\* renderer.core->reset(renderer.core) reads through renderer.core unchecked
quickReload ==
    /\ lastOp' = Op("quickReload", 0, Void, core = NULL)
    /\ framesRun' = 0
    /\ framesRunHi' = 0
    /\ renderFirstFrame' = TRUE
    /\ UNCHANGED << coreVars, fastForwardSpeed, fpsTarget60, frameTime, videoVars,
                    audioVars, mainLoopRunning >>

\* pauseGame without its emscripten_pause_main_loop call
pauseGameKeepsTicking ==
    /\ lastOp' = Op("pauseGame", 0, Void, FALSE)
    /\ framesRun' = 0
    /\ framesRunHi' = 0
    /\ renderFirstFrame' = TRUE
    /\ audioRunning' = PausedAudio
    /\ UNCHANGED << coreVars, fastForwardSpeed, fpsTarget60, frameTime, videoVars,
                    audioCore, mainLoopRunning >>

pauseGame ==
    /\ lastOp' = Op("pauseGame", 0, Void, FALSE)
    /\ framesRun' = 0
    /\ framesRunHi' = 0
    /\ renderFirstFrame' = TRUE
    /\ audioRunning' = PausedAudio
    /\ mainLoopRunning' = FALSE
    /\ UNCHANGED << coreVars, fastForwardSpeed, fpsTarget60, frameTime, videoVars,
                    audioCore >>

\* resumeGame without its `if (vol > 0)` test
resumeGameAlwaysStartsAudio(trap, junk) ==
    /\ framesRun' = 0
    /\ framesRunHi' = 0
    /\ UNCHANGED << coreVars, renderFirstFrame, fastForwardSpeed, fpsTarget60,
                    frameTime, videoVars, audioCore >>
    /\ lastOp' = Op("resumeGame", 0, Void, core = NULL)
    /\ IF core = NULL /\ trap
       THEN UNCHANGED << audioRunning, mainLoopRunning >>
       ELSE /\ audioRunning' = ResumedAudio
            /\ mainLoopRunning' = TRUE

\* mCoreConfigGetIntValue(&renderer.core->config, "volume", &vol) reads through
\* renderer.core unchecked.  With no core the read is undefined: the call
\* traps, or it goes on with whatever the lookup left in vol (`junk`).
resumeGame(trap, junk) ==
    /\ framesRun' = 0
    /\ framesRunHi' = 0
    /\ UNCHANGED << coreVars, renderFirstFrame, fastForwardSpeed, fpsTarget60,
                    frameTime, videoVars, audioCore >>
    /\ lastOp' = Op("resumeGame", 0, Void, core = NULL)
    /\ IF core = NULL /\ trap
       THEN UNCHANGED << audioRunning, mainLoopRunning >>
       ELSE LET vol == IF core = NULL THEN junk ELSE volumeCfg
            IN /\ audioRunning' = (IF vol > 0 THEN ResumedAudio ELSE audioRunning)
               /\ mainLoopRunning' = TRUE

(***************************************************************************)
(* buttonPress, buttonUnpress, bindKey                                     *)
(***************************************************************************)
buttonPress(id) ==
    /\ lastOp' = Op("buttonPress", id, Void, FALSE)
    /\ framesRun' = 0
    /\ framesRunHi' = 0
    /\ keys' = (IF core # NULL THEN keys \cup {id} ELSE keys)
    /\ UNCHANGED << core, sessions, romLoaded, volumeCfg, optsVolume, frameskipCfg,
                    videoBuffer, renderFirstFrame, fastForwardSpeed, fpsTarget60,
                    frameTime, videoVars, audioVars, mainLoopRunning >>

buttonUnpress(id) ==
    /\ lastOp' = Op("buttonUnpress", id, Void, FALSE)
    /\ framesRun' = 0
    /\ framesRunHi' = 0
    /\ keys' = (IF core # NULL THEN keys \ {id} ELSE keys)
    /\ UNCHANGED << core, sessions, romLoaded, volumeCfg, optsVolume, frameskipCfg,
                    videoBuffer, renderFirstFrame, fastForwardSpeed, fpsTarget60,
                    frameTime, videoVars, audioVars, mainLoopRunning >>

\* mInputBindKey(&renderer.core->inputMap, ...) reads through renderer.core
\* unchecked; the binding table itself is not part of the modelled state
bindKey ==
    /\ lastOp' = Op("bindKey", 0, Void, core = NULL)
    /\ framesRun' = 0
    /\ framesRunHi' = 0
    /\ UNCHANGED << coreVars, renderFirstFrame, fastForwardSpeed, fpsTarget60,
                    frameTime, videoVars, audioVars, mainLoopRunning >>

(***************************************************************************)
(* setVolume, getVolume                                                    *)
(***************************************************************************)
\* a plausible slip: only the lower limit tested
VolumeInRangeNoUpperLimit(v) == ~(v < 0)

\* if (vol > 2.0 || vol < 0) return;
VolumeInRange(v) == ~(v > MaxVol \/ v < 0)

\* int volume = (int) (vol * 0x100);   with vol = v / 512
VolumeFixed(v) == (v * 256) \div 512

setVolume(v) ==
    /\ lastOp' = Op("setVolume", v, Void, FALSE)
    /\ framesRun' = 0
    /\ framesRunHi' = 0
    /\ UNCHANGED << core, sessions, romLoaded, frameskipCfg, keys, videoBuffer,
                    renderFirstFrame, fastForwardSpeed, fpsTarget60, frameTime,
                    videoVars, audioCore, mainLoopRunning >>
    /\ IF VolumeInRange(v) /\ core # NULL
       THEN /\ audioRunning' =
                 (IF VolumeFixed(v) = 0 THEN PausedAudio ELSE ResumedAudio)
            /\ volumeCfg' = VolumeFixed(v)
            /\ optsVolume' = VolumeFixed(v)
       ELSE UNCHANGED << audioRunning, volumeCfg, optsVolume >>

\* return (float) renderer.core->opts.volume / 0x100;  reads through
\* renderer.core unchecked: with no core the value read is `junk`
getVolume(junk) ==
    /\ lastOp' = Op("getVolume", 0, IF core = NULL THEN junk ELSE optsVolume,
                    core = NULL)
    /\ framesRun' = 0
    /\ framesRunHi' = 0
    /\ UNCHANGED << coreVars, renderFirstFrame, fastForwardSpeed, fpsTarget60,
                    frameTime, videoVars, audioVars, mainLoopRunning >>

(***************************************************************************)
(* setFastForwardMultiplier, getFastForwardMultiplier                      *)
(***************************************************************************)
\* if (multiplier > 0)
MultiplierAccepted(m) == m > 0

\* mCoreConfigSetDefaultIntValue(&renderer.core->config, "frameskip", ...)
\* reads through renderer.core unchecked, after the two assignments
setFastForwardMultiplier(m) ==
    /\ framesRun' = 0
    /\ framesRunHi' = 0
    /\ UNCHANGED << core, sessions, romLoaded, volumeCfg, optsVolume, keys,
                    videoBuffer, renderFirstFrame, frameTime, videoVars, audioVars,
                    mainLoopRunning >>
    /\ IF MultiplierAccepted(m)
       THEN /\ fastForwardSpeed' = m
            /\ fpsTarget60' = m
            /\ frameskipCfg' = (IF core # NULL THEN m - 1 ELSE frameskipCfg)
            /\ lastOp' = Op("setFastForwardMultiplier", m, Void, core = NULL)
       ELSE /\ UNCHANGED << fastForwardSpeed, fpsTarget60, frameskipCfg >>
            /\ lastOp' = Op("setFastForwardMultiplier", m, Void, FALSE)

getFastForwardMultiplier ==
    /\ lastOp' = Op("getFastForwardMultiplier", 0, fastForwardSpeed, FALSE)
    /\ framesRun' = 0
    /\ framesRunHi' = 0
    /\ UNCHANGED << coreVars, renderFirstFrame, fastForwardSpeed, fpsTarget60,
                    frameTime, videoVars, audioVars, mainLoopRunning >>

(***************************************************************************)
(* saveState, loadState, autoLoadCheats                                    *)
(***************************************************************************)
\* `ok` is what mCoreSaveState / mCoreLoadState / mCoreAutoloadCheats returns
saveState(ok) ==
    /\ lastOp' = Op("saveState", 0, IF core # NULL /\ ok THEN True ELSE False, FALSE)
    /\ framesRun' = 0
    /\ framesRunHi' = 0
    /\ UNCHANGED << coreVars, renderFirstFrame, fastForwardSpeed, fpsTarget60,
                    frameTime, videoVars, audioVars, mainLoopRunning >>

loadState(ok) ==
    /\ lastOp' = Op("loadState", 0, IF core # NULL /\ ok THEN True ELSE False, FALSE)
    /\ framesRun' = 0
    /\ framesRunHi' = 0
    /\ UNCHANGED << coreVars, renderFirstFrame, fastForwardSpeed, fpsTarget60,
                    frameTime, videoVars, audioVars, mainLoopRunning >>

\* return mCoreAutoloadCheats(renderer.core);  passes renderer.core unchecked
autoLoadCheats(ok) ==
    /\ lastOp' = Op("autoLoadCheats", 0, IF ok THEN True ELSE False, core = NULL)
    /\ framesRun' = 0
    /\ framesRunHi' = 0
    /\ UNCHANGED << coreVars, renderFirstFrame, fastForwardSpeed, fpsTarget60,
                    frameTime, videoVars, audioVars, mainLoopRunning >>

(***************************************************************************)
(* The program: the host calls runLoop while the main loop is not paused,  *)
(* and the embedding page calls the exported entry points at any time.     *)
(***************************************************************************)
Tick ==
    \E elapsed \in ElapsedSet, evs \in EventSeqs :
        \E low \in Roundings(frameTime + elapsed) :
            \E ub \in Outcomes(FramesDue(frameTime + elapsed, low),
                                SpeedAfterEvents(fastForwardSpeed, evs)) :
                runLoop(elapsed, evs, low, ub) /\ UNCHANGED paceVars

Load ==
    \E found \in BOOLEAN, loaded \in BOOLEAN, size \in VideoSizes :
        loadGame(found, loaded, size) /\ UNCHANGED paceVars

Unload == quitGame /\ UNCHANGED paceVars
Reset == quickReload /\ UNCHANGED paceVars
Pause == pauseGame /\ UNCHANGED paceVars
Resume ==
    \E trap \in BOOLEAN, junk \in {-1, DefaultVolume} :
        resumeGame(trap, junk) /\ UNCHANGED paceVars
ButtonPress == \E id \in Buttons : buttonPress(id) /\ UNCHANGED paceVars
ButtonRelease == \E id \in Buttons : buttonUnpress(id) /\ UNCHANGED paceVars
BindKey == bindKey /\ UNCHANGED paceVars
SetVolume == \E v \in VolSet : setVolume(v) /\ UNCHANGED paceVars
GetVolume == \E junk \in {0, DefaultVolume} : getVolume(junk) /\ UNCHANGED paceVars
SetFastForwardMultiplier ==
    \E m \in MultiplierSet : setFastForwardMultiplier(m) /\ UNCHANGED paceVars
GetFastForwardMultiplier == getFastForwardMultiplier /\ UNCHANGED paceVars
SaveState == \E ok \in BOOLEAN : saveState(ok) /\ UNCHANGED paceVars
LoadState == \E ok \in BOOLEAN : loadState(ok) /\ UNCHANGED paceVars
AutoLoadCheats == \E ok \in BOOLEAN : autoLoadCheats(ok) /\ UNCHANGED paceVars

Next ==
    \/ Tick
    \/ Load
    \/ Unload
    \/ Reset
    \/ Pause
    \/ Resume
    \/ ButtonPress
    \/ ButtonRelease
    \/ BindKey
    \/ SetVolume
    \/ GetVolume
    \/ SetFastForwardMultiplier
    \/ GetFastForwardMultiplier
    \/ SaveState
    \/ LoadState
    \/ AutoLoadCheats

Spec == Init /\ [][Next]_vars

(***************************************************************************)
(* The pacing run: one Load, the first-frame tick, then ticks arriving at  *)
(* a constant spacing of one frame duration with the multiplier at 1.      *)
(***************************************************************************)
PaceLoad ==
    /\ core = NULL
    /\ loadGame(TRUE, TRUE, GBASize)
    /\ UNCHANGED paceVars

PaceFirstTick ==
    /\ core # NULL
    /\ renderFirstFrame
    /\ \E elapsed \in PaceFirstElapsed :
         \E low \in Roundings(frameTime + elapsed) :
             runLoop(elapsed, <<>>, low, "wrap")
    /\ UNCHANGED paceVars

PaceTick ==
    /\ core # NULL
    /\ ~renderFirstFrame
    /\ paceTicks < MaxPaceTicks
    /\ \E low \in Roundings(frameTime + PaceSpacing) :
         runLoop(PaceSpacing, <<>>, low, "wrap")
    /\ paceTicks' = paceTicks + 1
    /\ paceFrames' = paceFrames + framesRun'
    /\ UNCHANGED paceAhead

NextPace ==
    \/ PaceLoad
    \/ PaceFirstTick
    \/ PaceTick

SpecPace == Init /\ [][NextPace]_vars

(***************************************************************************)
(* The drift run: one Load, then ticks with arbitrary elapsed times and    *)
(* the multiplier at 1; the frames executed are weighed against the time   *)
(* that has elapsed since the Load.                                        *)
(***************************************************************************)
DriftLoad ==
    /\ core = NULL
    /\ loadGame(TRUE, TRUE, GBASize)
    /\ UNCHANGED paceVars

DriftTick ==
    /\ core # NULL
    /\ paceFrames < MaxDriftFrames
    /\ \E elapsed \in DriftElapsed :
         /\ \E low \in Roundings(frameTime + elapsed) :
                runLoop(elapsed, <<>>, low, "wrap")
         /\ paceAhead' = paceAhead + framesRun' * TargetFrameTime - elapsed
    /\ paceFrames' = paceFrames + framesRun'
    /\ UNCHANGED paceTicks

NextDrift ==
    \/ DriftLoad
    \/ DriftTick

SpecDrift == Init /\ [][NextDrift]_vars

(***************************************************************************)
(* Properties                                                              *)
(***************************************************************************)
Unloaded == core = NULL
LoadedOk == lastOp.op = "loadGame" /\ lastOp.ret = True
Resumed == lastOp.op = "resumeGame" /\ ~lastOp.fault

\* C1: immediately after a successful Load or after a Resume, the very next
\* Tick executes exactly one frame, whatever its elapsed time, the accumulator
\* and the multiplier.
C1_FirstTickRunsOneFrame ==
    [][ ((LoadedOk \/ Resumed) /\ lastOp'.op = "runLoop") => (framesRun' = 1 /\ framesRunHi' = 0) ]_vars

\* C2: a Load called while a session is active leaves no audio stream running
\* and no surface alive that still belongs to the destroyed session, also when
\* the new Load fails.
C2_LoadTearsDownOldSession ==
    [][ (core # NULL /\ lastOp'.op = "loadGame")
          => /\ audioRunning' => (core' # NULL /\ audioCore' = core')
             /\ sdlTex' # NULL => sdlTex' = core' ]_vars

SessionScopedOps ==
    { "quickReload", "pauseGame", "resumeGame", "saveState", "loadState",
      "buttonPress", "buttonUnpress", "setFastForwardMultiplier", "getVolume",
      "bindKey", "autoLoadCheats" }
BoolOps == { "saveState", "loadState", "autoLoadCheats" }

\* C3: every session-scoped entry point called while Unloaded returns failure
\* or does nothing: it never dereferences the absent session handle and the
\* lifecycle state stays Unloaded.
C3_UnloadedCallsAreSafe ==
    [][ (Unloaded /\ lastOp'.op \in SessionScopedOps)
          => /\ ~lastOp'.fault
             /\ core' = NULL
             /\ lastOp'.op \in BoolOps => lastOp'.ret = False ]_vars

\* C4: Load returns success only when the machine handle was created and the
\* program image was loaded; otherwise it returns failure and leaves the state
\* Unloaded: no session handle, no host ticking, no audio running.
C4_LoadFailureLeavesUnloaded ==
    lastOp.op = "loadGame"
      => IF lastOp.ret = True
         THEN core # NULL /\ romLoaded
         ELSE core = NULL /\ ~mainLoopRunning /\ ~audioRunning

\* C5: in every Tick, for every elapsed time and every accepted multiplier,
\* the number of frames executed is at most 20.
C5_AtMostTwentyFrames ==
    UnsignedAtMost(framesRun, MaxFramesPerTick) /\ framesRunHi = 0

\* C6: after every Tick with a session loaded the accumulator satisfies
\* 0 <= accumulator < frameDurationMs, both when frames ran and when the tick
\* returned early.
C6_AccumulatorNormalised == frameTime >= 0 /\ frameTime < TargetFrameTime

\* a tick that ran two frames and left a positive remainder
C6_Witness ==
    /\ lastOp.op = "runLoop"
    /\ core # NULL
    /\ lastOp.arg > 0
    /\ framesRun = 2
    /\ frameTime > 0

AudioGateInv ==
    audioRunning => (core # NULL /\ mainLoopRunning /\ volumeCfg > 0)

\* C7: the audio stream is running only if a session is loaded, the session
\* is not paused and the configured volume is greater than 0.  Stated as
\* preservation by every call that does not read through a NULL handle.
C7_AudioOnlyWhileRunning ==
    [][ (AudioGateInv /\ ~lastOp'.fault) => AudioGateInv' ]_vars

\* C8: SetVolume with a value below 0 or above 2.0 changes nothing: the
\* configured volume, the value GetVolume returns and the audio flag are the
\* same as before the call, in every lifecycle state.
C8_OutOfRangeVolumeIsNoOp ==
    [][ (lastOp'.op = "setVolume" /\ (lastOp'.arg < 0 \/ lastOp'.arg > MaxVol))
          => UNCHANGED << coreVars, renderFirstFrame, fastForwardSpeed,
                          fpsTarget60, frameTime, videoVars, audioVars,
                          mainLoopRunning >> ]_vars

\* setVolume(2.1) was called on a running session whose volume had been set
\* to 200% and which is still playing at that volume
C8_Witness ==
    /\ lastOp.op = "setVolume"
    /\ lastOp.arg > MaxVol
    /\ core # NULL
    /\ audioRunning
    /\ volumeCfg = 512
    /\ optsVolume = 512

\* min(20, m * n) without leaving the 32-bit range, for m >= 1 and n >= 0
ScaledAndCapped(m, n) ==
    IF n = 0 THEN 0
    ELSE IF m > MaxFramesPerTick \div n THEN MaxFramesPerTick
    ELSE m * n

\* C9: with a session running and the render-first-frame flag clear, a Tick
\* executes min(20, m * floor((accumulator + 0.2) / frameDurationMs)) frames
\* for the multiplier m in force; SetFastForwardMultiplier(m) sets it for
\* m > 0 and leaves it unchanged for m <= 0, and GetFastForwardMultiplier
\* returns it.
C9_FramesScaleWithMultiplier ==
    [][ /\ (lastOp'.op = "runLoop" /\ core # NULL /\ ~renderFirstFrame)
            => /\ framesRun' = ScaledAndCapped(fastForwardSpeed',
                              (frameTime + lastOp'.arg + Epsilon) \div TargetFrameTime)
               /\ framesRunHi' = 0
        /\ lastOp'.op = "setFastForwardMultiplier"
            => fastForwardSpeed' =
                 (IF lastOp'.arg > 0 THEN lastOp'.arg ELSE fastForwardSpeed)
        /\ lastOp'.op = "getFastForwardMultiplier"
            => lastOp'.ret = fastForwardSpeed ]_vars

\* C10: with multiplier 1 and ticks one frame duration apart, the frames
\* executed over any N consecutive ticks after the first-frame tick differ
\* from N by at most 1: every such tick runs one or two frames, and from the
\* first-frame tick on there is never more than one frame above the ticks.
C10_FramesWithinOneOfTicks ==
    /\ paceFrames - paceTicks <= 1
    /\ paceTicks - paceFrames <= 0
    /\ paceTicks > 0 => (framesRun \in {1, 2} /\ framesRunHi = 0)

\* the accumulator stood exactly on the threshold of two frames, one tick has
\* run two frames and the ticks after it one frame each
C10_Witness ==
    /\ lastOp.op = "runLoop"
    /\ paceTicks > 2
    /\ framesRun = 1
    /\ paceFrames = paceTicks + 1

\* C11 as claimed: with multiplier 1, after any sequence of ticks following a
\* Load, the frames executed times the frame duration exceed the elapsed
\* time by at most one frame duration plus the 0.2 ms bias.
C11_AheadByAtMostOneFrame == paceAhead <= TargetFrameTime + Epsilon

\* C11 as amended: the frames executed times the frame duration exceed the
\* elapsed time by at most 0.2 ms for every frame executed (less what is
\* still in the accumulator).
C11_AheadByBiasPerFrame == paceAhead + frameTime <= Epsilon * paceFrames

\* two frames have been executed, each of them early: the lead is more than
\* the bias of one frame
C11_Witness ==
    /\ lastOp.op = "runLoop"
    /\ framesRun = 1
    /\ paceFrames = 2
    /\ paceAhead > Epsilon

\* everything the program holds (lastOp, framesRun and framesRunHi only
\* record the call)
programVars ==
    << coreVars, renderFirstFrame, fastForwardSpeed, fpsTarget60, frameTime,
       videoVars, audioVars, mainLoopRunning >>

\* C12: Unload with a session loaded suspends the host ticking, stops the
\* audio, destroys the handle and leaves the session empty; Unload with no
\* session changes no state at all.
C12_UnloadTearsDownAndIsIdempotent ==
    [][ lastOp'.op = "quitGame" =>
          IF core # NULL
          THEN /\ ~mainLoopRunning'
               /\ ~audioRunning'
               /\ core' = NULL
               /\ ~romLoaded'
               /\ keys' = {}
               /\ videoBuffer' = NULL
          ELSE UNCHANGED programVars ]_vars

\* an Unload has ended a session
C12_Witness ==
    /\ lastOp.op = "quitGame"
    /\ sessions > 0
    /\ core = NULL
    /\ ~audioRunning
    /\ ~mainLoopRunning

\* C13: after a successful Load, a Reset, a Resume that follows a Pause, and
\* an Unload, the frame pacing state is reset: the accumulator is 0 and the
\* render-first-frame flag is set.
C13_PacingStateReset ==
    [][ ( \/ lastOp'.op = "loadGame" /\ lastOp'.ret = True
          \/ lastOp'.op = "quickReload" /\ ~lastOp'.fault
          \/ lastOp.op = "pauseGame" /\ lastOp'.op = "resumeGame" /\ ~lastOp'.fault
          \/ lastOp'.op = "quitGame" )
        => (frameTime' = 0 /\ renderFirstFrame') ]_vars

\* C14 as claimed: the audio flag goes from stopped to running only inside
\* Load or Resume and from running to stopped only inside Pause or Unload;
\* no other operation (SetVolume among them) changes it.
C14_AudioFlagOnlyInLifecycleOps ==
    [][ (audioRunning' # audioRunning) =>
          IF audioRunning'
          THEN lastOp'.op \in {"loadGame", "resumeGame"}
          ELSE lastOp'.op \in {"pauseGame", "quitGame"} ]_vars

\* C14 as amended: the audio flag goes from stopped to running only inside
\* Load, Resume or a SetVolume that configures a positive volume, and from
\* running to stopped only inside Pause, Unload or a SetVolume that
\* configures volume 0.
C14_AudioFlagOnlyInLifecycleOpsOrSetVolume ==
    [][ (audioRunning' # audioRunning) =>
          IF audioRunning'
          THEN \/ lastOp'.op \in {"loadGame", "resumeGame"}
               \/ lastOp'.op = "setVolume" /\ volumeCfg' > 0
          ELSE \/ lastOp'.op \in {"pauseGame", "quitGame"}
               \/ lastOp'.op = "setVolume" /\ volumeCfg' = 0 ]_vars

\* a SetVolume(0) on a running session has stopped the audio
C14_Witness ==
    /\ lastOp.op = "setVolume"
    /\ lastOp.arg = 0
    /\ core # NULL
    /\ mainLoopRunning
    /\ ~audioRunning

\* C15: a multiplier set through SetFastForwardMultiplier(m), m > 0, is not
\* overridden by the fast-forward key: a release of the key handled after the
\* call leaves the multiplier GetFastForwardMultiplier returns equal to m.
C15_KeyReleaseKeepsSetMultiplier ==
    [][ ( /\ lastOp.op = "setFastForwardMultiplier"
          /\ lastOp.arg > 0
          /\ lastOp'.op = "runLoop"
          /\ lastOp'.evs = <<"Fup">> )
        => fastForwardSpeed' = lastOp.arg ]_vars

\* C16: in every reachable state the audio rate target is the base rate (60)
\* times the current multiplier: audio.fpsTarget = 60 * fastForwardSpeed
\* (fpsTarget60 holds audio.fpsTarget / 60).
C16_AudioRateFollowsMultiplier == fpsTarget60 = fastForwardSpeed

\* C17: the video surface is created and destroyed only inside Load: Reset,
\* Pause, Resume, Unload and Tick (and every call but Load) leave its identity
\* and its dimensions unchanged, and Reset also leaves the host ticking and
\* the audio flag as they were.
C17_SurfaceChangesOnlyInLoad ==
    [][ /\ (sdlTex' # sdlTex \/ texSize' # texSize) => lastOp'.op = "loadGame"
        /\ lastOp'.op = "quickReload" =>
               /\ mainLoopRunning' = mainLoopRunning
               /\ audioRunning' = audioRunning ]_vars

\* an Unload has left the surface of the session it ended in place
C17_Witness ==
    /\ lastOp.op = "quitGame"
    /\ core = NULL
    /\ sdlTex # NULL
    /\ texSize = GBSize

\* C18: Pause of a loaded, running session sets the render-first-frame flag,
\* stops the audio and suspends the host ticking; Resume of a loaded, paused
\* session resumes the host ticking and leaves the audio running if and only
\* if the configured volume is greater than 0; so Resume after SetVolume(0)
\* ends with the session running and the audio stopped.
C18_PauseAndResume ==
    [][ /\ (lastOp'.op = "pauseGame" /\ core # NULL /\ mainLoopRunning) =>
               /\ renderFirstFrame'
               /\ ~audioRunning'
               /\ ~mainLoopRunning'
               /\ core' = core
        /\ (lastOp'.op = "resumeGame" /\ core # NULL /\ ~mainLoopRunning) =>
               /\ mainLoopRunning'
               /\ audioRunning' = (volumeCfg > 0)
               /\ core' = core
        /\ ( /\ lastOp.op = "setVolume" /\ lastOp.arg = 0
             /\ lastOp'.op = "resumeGame" /\ core # NULL /\ ~mainLoopRunning ) =>
               /\ mainLoopRunning'
               /\ ~audioRunning' ]_vars

\* a session muted while paused has been resumed: it runs with the audio stopped
C18_Witness ==
    /\ lastOp.op = "resumeGame"
    /\ core # NULL
    /\ volumeCfg = 0
    /\ mainLoopRunning
    /\ ~audioRunning

\* C19: frames are executed only by a tick, with a session handle present
\* and the host ticking not suspended, and never in the step that follows a
\* Pause or an Unload; a tick with no session runs no frame, suspends the
\* host ticking and sets the render-first-frame flag.
C19_NoFrameWhileUnloadedOrPaused ==
    [][ /\ (framesRun' # 0 \/ framesRunHi' # 0) =>
               /\ lastOp'.op = "runLoop"
               /\ core # NULL
               /\ mainLoopRunning
        /\ lastOp.op \in {"pauseGame", "quitGame"} =>
               (framesRun' = 0 /\ framesRunHi' = 0)
        /\ (lastOp'.op = "runLoop" /\ core = NULL) =>
               /\ framesRun' = 0
               /\ framesRunHi' = 0
               /\ ~mainLoopRunning'
               /\ renderFirstFrame' ]_vars

\* a tick has found no session after one was loaded, and has suspended the
\* host ticking
C19_Witness ==
    /\ lastOp.op = "runLoop"
    /\ sessions > 0
    /\ core = NULL
    /\ framesRun = 0
    /\ ~mainLoopRunning
    /\ renderFirstFrame

\* C20: whenever frames are executed, the video target of the session is the
\* locked buffer of the texture that exists at that moment, never the buffer
\* of a destroyed texture or of one that is unlocked.
C20_FramesDrawIntoLiveLockedSurface ==
    [][ (framesRun' # 0 \/ framesRunHi' # 0) =>
          /\ sdlTex # NULL
          /\ sdlTex = core
          /\ texLocked
          /\ videoBuffer = sdlTex ]_vars

\* frames have been executed in a session that replaced an earlier one
C20_Witness ==
    /\ lastOp.op = "runLoop"
    /\ framesRun > 0
    /\ core = 2
    /\ sdlTex = 2
    /\ texLocked
    /\ videoBuffer = sdlTex

====
